---- MODULE Spec2Model ----
(***************************************************************************)
(* A model of nbterm: the notebook document model (notebook_util) and the  *)
(* modal event translator (tui).                                           *)
(*                                                                         *)
(* Conventions.  A Rust Option is a sequence of length at most one: <<>>   *)
(* is None and <<x>> is Some(x).  A serde_json::Value, and a JSON document *)
(* tree, is a record tagged by t: null, num, str, arr (v a sequence) or    *)
(* obj (v a function from key strings to values).  A Result is a record    *)
(* with ok = TRUE and val, or ok = FALSE and err.                          *)
(***************************************************************************)
EXTENDS Integers, Sequences, FiniteSets, TLC

\* TLC orders names by their first occurrence in the module and sorts the
\* fields of a record, and the elements of a set, in place, in values its
\* workers share.  The names are listed here alphabetically, and every record
\* and every set of strings below is written alphabetically, so that each is
\* sorted as written.
NameOrder ==
    [CONTROL |-> "CONTROL", Char |-> "Char", Code |-> "Code",
     Command |-> "Command", Concatenate |-> "Concatenate", Copy |-> "Copy",
     Cut |-> "Cut", DeleteLine |-> "DeleteLine",
     DeletePreviousWord |-> "DeletePreviousWord",
     DeleteText |-> "DeleteText", DeleteToEndOfFile |-> "DeleteToEndOfFile",
     DeleteToEndOfLine |-> "DeleteToEndOfLine",
     DeleteToStartOfFile |-> "DeleteToStartOfFile",
     DeleteToStartOfLine |-> "DeleteToStartOfLine",
     DeleteWord |-> "DeleteWord", DisplayData |-> "DisplayData",
     Down |-> "Down", Error |-> "Error", Esc |-> "Esc",
     ExecuteResult |-> "ExecuteResult", FocusGained |-> "FocusGained",
     Input |-> "Input", Insert |-> "Insert", Key |-> "Key",
     Markdown |-> "Markdown", Mouse |-> "Mouse", Normal |-> "Normal",
     Paste |-> "Paste", Quit |-> "Quit", Raw |-> "Raw", Redo |-> "Redo",
     Repeat |-> "Repeat", Replace |-> "Replace", Resize |-> "Resize",
     SHIFT |-> "SHIFT", SaveFile |-> "SaveFile", Stream |-> "Stream",
     SwitchToCommandMode |-> "SwitchToCommandMode",
     SwitchToInsertMode |-> "SwitchToInsertMode",
     SwitchToNormalMode |-> "SwitchToNormalMode",
     SwitchToReplaceMode |-> "SwitchToReplaceMode",
     SwitchToVisualBlockMode |-> "SwitchToVisualBlockMode",
     SwitchToVisualLineMode |-> "SwitchToVisualLineMode",
     SwitchToVisualMode |-> "SwitchToVisualMode", Tab |-> "Tab",
     ToLeftPane |-> "ToLeftPane", ToLowerPane |-> "ToLowerPane",
     ToRightPane |-> "ToRightPane", ToUpperPane |-> "ToUpperPane",
     UICursor |-> "UICursor", Undo |-> "Undo", Up |-> "Up", V |-> "V",
     Visual |-> "Visual", VisualBlock |-> "VisualBlock",
     VisualLine |-> "VisualLine", a |-> "a", ada |-> "ada",
     alternate_screen |-> "alternate_screen", arr |-> "arr",
     authors |-> "authors", b |-> "b", before |-> "before", c |-> "c",
     call |-> "call", calls |-> "calls", cell |-> "cell",
     cell_type |-> "cell_type", cells |-> "cells", code |-> "code",
     codemirror_mode |-> "codemirror_mode", command |-> "command",
     content |-> "content", create_dir_all |-> "create_dir_all",
     data |-> "data", default |-> "default", dirs |-> "dirs",
     disable_raw_mode |-> "disable_raw_mode", dispatch |-> "dispatch",
     display_data |-> "display_data", display_name |-> "display_name",
     draw |-> "draw", enable_raw_mode |-> "enable_raw_mode",
     ename |-> "ename", enter_alternate_screen |-> "enter_alternate_screen",
     err |-> "err", error |-> "error", evalue |-> "evalue",
     event |-> "event", execute_command |-> "execute_command",
     execute_result |-> "execute_result", executed |-> "executed",
     execution_count |-> "execution_count",
     file_extension |-> "file_extension", file_path |-> "file_path",
     from_str |-> "from_str", fs |-> "fs", h |-> "h", heading |-> "heading",
     hi |-> "hi", i |-> "i", idle |-> "idle", index |-> "index",
     input_mode |-> "input_mode", insert_code_cell |-> "insert_code_cell",
     insert_markdown_cell |-> "insert_markdown_cell",
     insert_raw_cell |-> "insert_raw_cell", ipynb |-> "ipynb",
     ipython |-> "ipython", is_dirty |-> "is_dirty",
     is_read_only |-> "is_read_only", j |-> "j", k |-> "k",
     kernelspec |-> "kernelspec", kind |-> "kind", l |-> "l",
     language_info |-> "language_info",
     leave_alternate_screen |-> "leave_alternate_screen",
     leaving |-> "leaving", left_pane_mode |-> "left_pane_mode",
     markdown |-> "markdown", metadata |-> "metadata",
     mimetype |-> "mimetype", modifiers |-> "modifiers", more |-> "more",
     mouse_capture |-> "mouse_capture", name |-> "name",
     nbformat |-> "nbformat", nbformat_minor |-> "nbformat_minor",
     new |-> "new", new_with_notebook |-> "new_with_notebook",
     none |-> "none", null |-> "null", num |-> "num", obj |-> "obj",
     ok |-> "ok", op |-> "op", other |-> "other", out |-> "out",
     output_type |-> "output_type", outputs |-> "outputs",
     parsed |-> "parsed", path |-> "path", poll |-> "poll",
     push_code_cell |-> "push_code_cell",
     push_markdown_cell |-> "push_markdown_cell",
     push_raw_cell |-> "push_raw_cell", pyout |-> "pyout",
     python |-> "python", python3 |-> "python3", q |-> "q", raw |-> "raw",
     raw_mode |-> "raw_mode", read |-> "read", ready |-> "ready",
     ret |-> "ret", returned |-> "returned",
     right_pane_mode |-> "right_pane_mode", save |-> "save",
     save_to_file |-> "save_to_file", save_to_str |-> "save_to_str",
     saved |-> "saved", session |-> "session", show_cursor |-> "show_cursor",
     source |-> "source", state |-> "state", stdout |-> "stdout",
     str |-> "str", stream |-> "stream", sub |-> "sub", t |-> "t",
     tab_selected |-> "tab_selected", tabs |-> "tabs",
     terminal_new |-> "terminal_new", text |-> "text", tmp |-> "tmp",
     traceback |-> "traceback", translate_event |-> "translate_event",
     translated |-> "translated", v |-> "v", val |-> "val",
     variant |-> "variant", version |-> "version",
     viewer_draw |-> "viewer_draw", viewer_poll |-> "viewer_poll",
     viewer_read |-> "viewer_read", viewing |-> "viewing", w |-> "w",
     widgets |-> "widgets", write |-> "write", written |-> "written",
     x |-> "x"]

VARIABLES
    notebook,      \* the Notebook owned by the session
    last,          \* the last Notebook operation: its name, arguments, result
    serde_unit,    \* whether the serde of the build flattens a unit value
    document,      \* the JSON document handed to from_str
    parsed,        \* the result of from_str(document)
    resaved,       \* the result of save_to_str on the parsed notebook
    pc,            \* position of the parse / translate run
    input_mode,    \* the InputMode handed to translate_event
    event,         \* the crossterm Event handed to translate_event
    command,       \* the Option<EditorCommand> translate_event returned
    app,           \* the NotebookApp of tui/app.rs
    selected,      \* the field selected of the NotebookApp of tui/mod.rs
    terminal,      \* the terminal run() sets up and restores
    files,         \* the file system save_to_file writes to
    trace,         \* the events a loop has read, the commands executed
    returned       \* what run() or save_to_file returned

vars == <<notebook, last, serde_unit, document, parsed, resaved, pc,
          input_mode, event, command, app, selected, terminal, files, trace,
          returned>>

-----------------------------------------------------------------------------
(* Bounds of the model.                                                     *)

\* The notebook grows to at most this many cells.
MaxCells == 3

-----------------------------------------------------------------------------
(* Option, Result and serde_json::Value.                                    *)

None == <<>>
Some(x) == <<x>>

Ok(x) == [ok |-> TRUE, val |-> x]
Err(e) == [err |-> e,
           ok |-> FALSE]

JNull == [t |-> "null"]
JNum(n) == [t |-> "num", v |-> n]
JStr(s) == [t |-> "str", v |-> s]
JArr(s) == [t |-> "arr", v |-> s]
JObj(f) == [t |-> "obj", v |-> f]

\* json!({}): the empty object.
EmptyObject == JObj(<<>>)

\* u8::MAX, the range of nbformat and nbformat_minor.
U8Max == 255

-----------------------------------------------------------------------------
(* types.rs: Default for NotebookMetadata and for Notebook.                 *)

DefaultNotebookMetadata ==
    [kernelspec |-> None, language_info |-> None, other |-> JNull]

DefaultNotebook ==
    [cells |-> <<>>, metadata |-> DefaultNotebookMetadata,
     nbformat |-> 4, nbformat_minor |-> 5]

-----------------------------------------------------------------------------
(* impls.rs: the cell constructors of the insert_* / push_* methods and the *)
(* Output constructors.                                                     *)

MarkdownCell(source) ==
    [metadata |-> EmptyObject,
     source |-> source,
     variant |-> "Markdown"]

RawCell(source) ==
    [metadata |-> EmptyObject,
     source |-> source,
     variant |-> "Raw"]

\* A slip of push_code_cell / insert_code_cell: the variant of the method the
\* body was copied from.
CodeCell_markdown(source, execution_count, outputs) ==
    [metadata |-> EmptyObject,
     source |-> source,
     variant |-> "Markdown"]

CodeCell(source, execution_count, outputs) ==
    [execution_count |-> execution_count,
     metadata |-> EmptyObject,
     outputs |-> outputs,
     source |-> source,
     variant |-> "Code"]

stream_stdout(text) ==
    [name |-> "stdout",
     text |-> <<text>>,
     variant |-> "Stream"]

execute_result(execution_count, result) ==
    [data |-> JObj([k \in {"text/plain"} |-> JStr(result)]),
     execution_count |-> execution_count,
     metadata |-> EmptyObject,
     variant |-> "ExecuteResult"]

-----------------------------------------------------------------------------
(* impls.rs: the read-only views.                                           *)

len(nb) == Len(nb.cells)

is_empty(nb) == nb.cells = <<>>

\* A slip of the filter: the kept items are collected in reverse.
RECURSIVE FilterSeq_reversed(_, _)
FilterSeq_reversed(s, variant) ==
    IF s = <<>> THEN <<>>
    ELSE IF Head(s).variant = variant
         THEN FilterSeq_reversed(Tail(s), variant) \o <<Head(s)>>
         ELSE FilterSeq_reversed(Tail(s), variant)

\* Vec::iter().filter_map(f): the items f keeps, in order.
RECURSIVE FilterSeq(_, _)
FilterSeq(s, variant) ==
    IF s = <<>> THEN <<>>
    ELSE IF Head(s).variant = variant
         THEN <<Head(s)>> \o FilterSeq(Tail(s), variant)
         ELSE FilterSeq(Tail(s), variant)

code_cells(nb) == FilterSeq(nb.cells, "Code")

markdown_cells(nb) == FilterSeq(nb.cells, "Markdown")

-----------------------------------------------------------------------------
(* impls.rs: insert_cell and push_cell.  Both return the pair of the new    *)
(* cell vector and the value the method returns.                            *)

\* A slip of the insertion: the cell is pushed and swapped into place, which
\* moves the cell that was at index to the end.
VecInsert_swap(cells, index, cell) ==
    IF index = Len(cells) THEN Append(cells, cell)
    ELSE [Append(cells, cells[index + 1]) EXCEPT ![index + 1] = cell]

\* Vec::insert(index, cell) for index <= len.
VecInsert(cells, index, cell) ==
    SubSeq(cells, 1, index) \o <<cell>> \o SubSeq(cells, index + 1, Len(cells))

\* A slip of the bounds check: < for <=.
insert_cell_strict(cells, index, cell) ==
    IF index < Len(cells)
    THEN [cells |-> VecInsert(cells, index, cell), ret |-> TRUE]
    ELSE [cells |-> cells, ret |-> FALSE]

insert_cell(cells, index, cell) ==
    IF index <= Len(cells)
    THEN [cells |-> VecInsert(cells, index, cell), ret |-> TRUE]
    ELSE [cells |-> cells, ret |-> FALSE]

\* A slip of the push: the cell goes first.
push_cell_front(cells, cell) == <<cell>> \o cells

push_cell(cells, cell) == Append(cells, cell)

-----------------------------------------------------------------------------
(* types.rs, Serialize: what #[derive(Serialize)] writes for each type.     *)
(* save_to_str prints this tree with serde_json::to_string_pretty.          *)

SerStrings(s) == JArr([i \in 1..Len(s) |-> JStr(s[i])])

SerOptionU32(o) == IF o = None THEN JNull ELSE JNum(o[1])

SerOptionString(o) == IF o = None THEN JNull ELSE JStr(o[1])

\* #[serde(tag = "output_type")] enum Output.
SerOutput(o) ==
    CASE o.variant = "Stream" ->
           JObj([name |-> JStr(o.name),
                 output_type |-> JStr("stream"),
                 text |-> SerStrings(o.text)])
      [] o.variant = "ExecuteResult" ->
           JObj([data |-> o.data,
                 execution_count |-> JNum(o.execution_count),
                 metadata |-> o.metadata,
                 output_type |-> JStr("execute_result")])
      [] o.variant = "DisplayData" ->
           JObj([data |-> o.data,
                 metadata |-> o.metadata,
                 output_type |-> JStr("display_data")])
      [] o.variant = "Error" ->
           JObj([ename |-> JStr(o.ename),
                 evalue |-> JStr(o.evalue),
                 output_type |-> JStr("error"),
                 traceback |-> SerStrings(o.traceback)])

\* #[serde(tag = "cell_type")] enum Cell.
SerCell(c) ==
    CASE c.variant = "Code" ->
           JObj([cell_type |-> JStr("code"),
                 execution_count |-> SerOptionU32(c.execution_count),
                 metadata |-> c.metadata,
                 outputs |-> JArr([i \in 1..Len(c.outputs) |->
                                      SerOutput(c.outputs[i])]),
                 source |-> SerStrings(c.source)])
      [] c.variant = "Markdown" ->
           JObj([cell_type |-> JStr("markdown"),
                 metadata |-> c.metadata,
                 source |-> SerStrings(c.source)])
      [] c.variant = "Raw" ->
           JObj([cell_type |-> JStr("raw"),
                 metadata |-> c.metadata,
                 source |-> SerStrings(c.source)])

\* The entries of the struct's own fields followed by the flattened ones.
Merge(f, g) ==
    [k \in (DOMAIN f) \cup (DOMAIN g) |-> IF k \in DOMAIN f THEN f[k] ELSE g[k]]

\* #[serde(flatten)] other: Value.  serde's FlatMapSerializer writes the
\* entries of a map into the enclosing object; it refuses every other value,
\* except that a serde which flattens unit writes nothing for Value::Null.
FlattenSer(value, unit) ==
    IF value.t = "obj" THEN Ok(value.v)
    ELSE IF value.t = "null" /\ unit THEN Ok(<<>>)
    ELSE Err("can only flatten structs and maps")

SerKernelspec(k) ==
    JObj([display_name |-> JStr(k.display_name),
          name |-> JStr(k.name)])

SerLanguageInfo(l, unit) ==
    LET flat == FlattenSer(l.other, unit)
    IN  IF ~flat.ok THEN flat
        ELSE Ok(JObj(Merge([file_extension |-> SerOptionString(l.file_extension),
                      mimetype |-> SerOptionString(l.mimetype),
                      name |-> JStr(l.name),
                      version |-> SerOptionString(l.version)],
                           flat.val)))

SerNotebookMetadata(m, unit) ==
    LET li == IF m.language_info = None THEN Ok(JNull)
              ELSE SerLanguageInfo(m.language_info[1], unit)
        flat == FlattenSer(m.other, unit)
    IN  IF ~li.ok THEN li
        ELSE IF ~flat.ok THEN flat
        ELSE Ok(JObj(Merge([kernelspec |-> IF m.kernelspec = None THEN JNull
                                     ELSE SerKernelspec(m.kernelspec[1]),
                      language_info |-> li.val],
                           flat.val)))

SerNotebook(nb, unit) ==
    LET md == SerNotebookMetadata(nb.metadata, unit)
    IN  IF ~md.ok THEN md
        ELSE Ok(JObj([cells |-> JArr([i \in 1..Len(nb.cells) |->
                                         SerCell(nb.cells[i])]),
                      metadata |-> md.val,
                      nbformat |-> JNum(nb.nbformat),
                      nbformat_minor |-> JNum(nb.nbformat_minor)]))

\* impls.rs: save_to_str.
save_to_str(nb, unit) ==
    LET json == SerNotebook(nb, unit)
    IN  IF json.ok THEN json
        ELSE Err("Failed to serialize notebook to string")

-----------------------------------------------------------------------------
(* types.rs, Deserialize: what #[derive(Deserialize)] accepts for each      *)
(* type.  from_str reads the tree with serde_json::from_str.  A field the   *)
(* struct does not name is ignored, unless the struct has a flatten slot.   *)

Has(j, key) == key \in DOMAIN j.v

IsString(j) == j.t = "str"

IsU8(j) == j.t = "num" /\ j.v \in 0..U8Max

\* Every integer of the model is below 2^32, so only the sign is checked.
IsU32(j) == j.t = "num" /\ j.v >= 0

\* Vec<String>.
DeStrings(j) ==
    IF j.t = "arr" /\ \A i \in DOMAIN j.v : IsString(j.v[i])
    THEN Ok([i \in DOMAIN j.v |-> j.v[i].v])
    ELSE Err("invalid type, expected a sequence of strings")

\* A required field of an object.
DeField(j, key, De(_)) ==
    IF Has(j, key) THEN De(j.v[key]) ELSE Err("missing field")

\* An Option<T> field: a missing field and null are both None.
DeOptionField(j, key, De(_)) ==
    IF ~Has(j, key) \/ j.v[key].t = "null" THEN Ok(None)
    ELSE LET r == De(j.v[key]) IN IF r.ok THEN Ok(Some(r.val)) ELSE r

DeString(j) == IF IsString(j) THEN Ok(j.v) ELSE Err("invalid type, expected a string")

DeU8(j) == IF IsU8(j) THEN Ok(j.v) ELSE Err("invalid type, expected u8")

DeU32(j) == IF IsU32(j) THEN Ok(j.v) ELSE Err("invalid type, expected u32")

\* serde_json::Value takes any tree as it is.
DeValue(j) == Ok(j)

\* The first error among the results rs, if any.
FirstErr(rs) == rs[CHOOSE i \in DOMAIN rs : ~rs[i].ok /\ \A k \in 1..(i - 1) : rs[k].ok]

AllOk(rs) == \A i \in DOMAIN rs : rs[i].ok

\* Vec<T>: every element must deserialize.
DeVec(j, De(_)) ==
    IF j.t # "arr" THEN Err("invalid type, expected a sequence")
    ELSE LET rs == [i \in DOMAIN j.v |-> De(j.v[i])]
         IN  IF AllOk(rs) THEN Ok([i \in DOMAIN rs |-> rs[i].val])
             ELSE FirstErr(rs)

\* #[serde(tag = "output_type")] enum Output: the tag selects the variant and
\* a tag that names none is an error.
DeOutput(j) ==
    IF j.t # "obj" THEN Err("invalid type, expected internally tagged enum Output")
    ELSE IF ~Has(j, "output_type") THEN Err("missing field output_type")
    ELSE IF ~IsString(j.v["output_type"]) THEN Err("invalid type, expected variant identifier")
    ELSE LET tag == j.v["output_type"].v
         IN CASE tag = "stream" ->
                   LET rs == <<DeField(j, "name", DeString),
                               DeField(j, "text", DeStrings)>>
                   IN  IF AllOk(rs)
                       THEN Ok([name |-> rs[1].val,
                                text |-> rs[2].val,
                                variant |-> "Stream"])
                       ELSE FirstErr(rs)
              [] tag = "execute_result" ->
                   LET rs == <<DeField(j, "execution_count", DeU32),
                               DeField(j, "data", DeValue),
                               DeField(j, "metadata", DeValue)>>
                   IN  IF AllOk(rs)
                       THEN Ok([data |-> rs[2].val,
                                execution_count |-> rs[1].val,
                                metadata |-> rs[3].val,
                                variant |-> "ExecuteResult"])
                       ELSE FirstErr(rs)
              [] tag = "display_data" ->
                   LET rs == <<DeField(j, "data", DeValue),
                               DeField(j, "metadata", DeValue)>>
                   IN  IF AllOk(rs)
                       THEN Ok([data |-> rs[1].val,
                                metadata |-> rs[2].val,
                                variant |-> "DisplayData"])
                       ELSE FirstErr(rs)
              [] tag = "error" ->
                   LET rs == <<DeField(j, "ename", DeString),
                               DeField(j, "evalue", DeString),
                               DeField(j, "traceback", DeStrings)>>
                   IN  IF AllOk(rs)
                       THEN Ok([ename |-> rs[1].val,
                                evalue |-> rs[2].val,
                                traceback |-> rs[3].val,
                                variant |-> "Error"])
                       ELSE FirstErr(rs)
              [] OTHER -> Err("unknown variant, expected one of stream, execute_result, display_data, error")

DeOutputs(j) == DeVec(j, DeOutput)

\* A slip of the enum: the tag is not looked at and every cell is read as
\* the variant with the fewest fields.
DeCell_coerce(j) ==
    IF j.t # "obj" THEN Err("invalid type, expected struct RawCell")
    ELSE LET rs == <<DeField(j, "source", DeStrings),
                     DeField(j, "metadata", DeValue)>>
         IN  IF AllOk(rs)
             THEN Ok([metadata |-> rs[2].val, source |-> rs[1].val,
                      variant |-> "Raw"])
             ELSE FirstErr(rs)

\* #[serde(tag = "cell_type")] enum Cell.
DeCell(j) ==
    IF j.t # "obj" THEN Err("invalid type, expected internally tagged enum Cell")
    ELSE IF ~Has(j, "cell_type") THEN Err("missing field cell_type")
    ELSE IF ~IsString(j.v["cell_type"]) THEN Err("invalid type, expected variant identifier")
    ELSE LET tag == j.v["cell_type"].v
         IN CASE tag = "code" ->
                   LET rs == <<DeField(j, "source", DeStrings),
                               DeField(j, "metadata", DeValue),
                               DeOptionField(j, "execution_count", DeU32),
                               DeField(j, "outputs", DeOutputs)>>
                   IN  IF AllOk(rs)
                       THEN Ok([execution_count |-> rs[3].val,
                                metadata |-> rs[2].val,
                                outputs |-> rs[4].val,
                                source |-> rs[1].val,
                                variant |-> "Code"])
                       ELSE FirstErr(rs)
              [] tag = "markdown" ->
                   LET rs == <<DeField(j, "source", DeStrings),
                               DeField(j, "metadata", DeValue)>>
                   IN  IF AllOk(rs)
                       THEN Ok([metadata |-> rs[2].val,
                                source |-> rs[1].val,
                                variant |-> "Markdown"])
                       ELSE FirstErr(rs)
              [] tag = "raw" ->
                   LET rs == <<DeField(j, "source", DeStrings),
                               DeField(j, "metadata", DeValue)>>
                   IN  IF AllOk(rs)
                       THEN Ok([metadata |-> rs[2].val,
                                source |-> rs[1].val,
                                variant |-> "Raw"])
                       ELSE FirstErr(rs)
              [] OTHER -> Err("unknown variant, expected one of code, markdown, raw")

DeCells(j) == DeVec(j, DeCell)

\* A slip of the struct: without the flatten slot the entries the struct does
\* not name are ignored.
FlattenDe_ignore(j, named) == EmptyObject

\* #[serde(flatten)] other: Value.  The struct's visitor hands the entries it
\* does not name to the flatten slot, which a Value reads as a map.
FlattenDe(j, named) == JObj([k \in DOMAIN j.v \ named |-> j.v[k]])

DeKernelspec(j) ==
    IF j.t # "obj" THEN Err("invalid type, expected struct Kernelspec")
    ELSE LET rs == <<DeField(j, "name", DeString),
                     DeField(j, "display_name", DeString)>>
         IN  IF AllOk(rs)
             THEN Ok([display_name |-> rs[2].val,
                      name |-> rs[1].val])
             ELSE FirstErr(rs)

DeLanguageInfo(j) ==
    IF j.t # "obj" THEN Err("invalid type, expected struct LanguageInfo")
    ELSE LET rs == <<DeField(j, "name", DeString),
                     DeOptionField(j, "version", DeString),
                     DeOptionField(j, "mimetype", DeString),
                     DeOptionField(j, "file_extension", DeString)>>
         IN  IF AllOk(rs)
             THEN Ok([file_extension |-> rs[4].val,
                      mimetype |-> rs[3].val,
                      name |-> rs[1].val,
                      other |-> FlattenDe(j, {"file_extension", "mimetype",
                                              "name", "version"}),
                      version |-> rs[2].val])
             ELSE FirstErr(rs)

\* #[serde(default)] struct NotebookMetadata: a field the map lacks takes the
\* value of Default, except the flatten slot, which is always read.
DeNotebookMetadata(j) ==
    IF j.t # "obj" THEN Err("invalid type, expected struct NotebookMetadata")
    ELSE LET rs == <<DeOptionField(j, "kernelspec", DeKernelspec),
                     DeOptionField(j, "language_info", DeLanguageInfo)>>
         IN  IF AllOk(rs)
             THEN Ok([kernelspec |-> rs[1].val, language_info |-> rs[2].val,
                      other |-> FlattenDe(j, {"kernelspec", "language_info"})])
             ELSE FirstErr(rs)

DeNotebook(j) ==
    IF j.t # "obj" THEN Err("invalid type, expected struct Notebook")
    ELSE LET rs == <<DeField(j, "cells", DeCells),
                     DeField(j, "metadata", DeNotebookMetadata),
                     DeField(j, "nbformat", DeU8),
                     DeField(j, "nbformat_minor", DeU8)>>
         IN  IF AllOk(rs)
             THEN Ok([cells |-> rs[1].val, metadata |-> rs[2].val,
                      nbformat |-> rs[3].val, nbformat_minor |-> rs[4].val])
             ELSE FirstErr(rs)

\* impls.rs: from_str.  Either a whole Notebook or an error, never a part.
from_str(s) ==
    LET notebook_ == DeNotebook(s)
    IN  IF notebook_.ok THEN notebook_
        ELSE Err("Failed to parse notebook from JSON string")

-----------------------------------------------------------------------------
(* The arguments the mutation API is called with.                           *)

MarkdownSources == {<<"# Title">>, <<"text", "more">>}
RawSources == {<<"raw">>}
CodeSources == {<<"x=1">>}
\* (execution_count, outputs): a cell never run and a cell run once.
Executions == {<<None, <<>>>>, <<Some(1), <<execute_result(1, "1")>>>>}

\* usize indices: every valid one and the first two that are out of range.
Indices == 0..(MaxCells + 1)

InsertOps == {"insert_code_cell", "insert_markdown_cell", "insert_raw_cell"}
PushOps == {"push_code_cell", "push_markdown_cell", "push_raw_cell"}

\* A call that would grow the notebook is made only below the bound.
MayGrow == len(notebook) < MaxCells

UnchangedParse == UNCHANGED <<serde_unit, document, parsed, resaved, pc>>
UnchangedTranslate == UNCHANGED <<input_mode, event, command>>
UnchangedSession == UNCHANGED <<app, selected, terminal, files, trace, returned>>
UnchangedIo == UNCHANGED <<terminal, files, returned>>

-----------------------------------------------------------------------------
(* tui/editor_tab.rs, tui/app.rs: the application after construction.       *)

\* impl Default for EditorTab.
DefaultEditorTab ==
    [content |-> DefaultNotebook,
     is_dirty |-> FALSE,
     is_read_only |-> FALSE,
     name |-> "[unnamed]",
     path |-> <<"tmp", "nbterm_tmp.ipynb">>]

\* impl Default for NotebookApp, with the flag execute_command assigns:
\* self.leaving, which the struct of app.rs does not declare and default()
\* does not set; the model keeps it as a field that starts unset.
DefaultApp ==
    [file_path |-> None,
     input_mode |-> "Normal",
     leaving |-> FALSE,
     left_pane_mode |-> None,
     right_pane_mode |-> None,
     tab_selected |-> 0,
     tabs |-> <<DefaultEditorTab>>]

\* The terminal before run(): cooked mode, main screen, no call made.
CookedTerminal ==
    [alternate_screen |-> FALSE,
     calls |-> <<>>,
     mouse_capture |-> FALSE,
     raw_mode |-> FALSE]

\* A file system in which nothing was created or written yet.
NoFiles == [calls |-> <<>>, dirs |-> {}, written |-> {}]

NoTrace == [executed |-> <<>>, read |-> <<>>]

\* The parts of the state a run that does not use them leaves at rest.
SessionIdle ==
    /\ app = DefaultApp
    /\ selected = 0
    /\ terminal = CookedTerminal
    /\ files = NoFiles
    /\ trace = NoTrace
    /\ returned = Err("not started")

-----------------------------------------------------------------------------
(* impls.rs: the public mutation API, one action per method.                *)

\* The effect of an insert_*_cell(index, ...) that built cell.
Insert(op, index, cell) ==
    LET r == insert_cell(notebook.cells, index, cell)
    IN  /\ index > len(notebook) \/ MayGrow
        /\ notebook' = [notebook EXCEPT !.cells = r.cells]
        /\ last' = [before |-> notebook,
                    cell |-> cell,
                    index |-> index,
                    op |-> op,
                    ret |-> r.ret]
        /\ UnchangedParse
        /\ UnchangedTranslate
        /\ UnchangedSession
    /\ UnchangedSession

\* The effect of a push_*_cell(...) that built cell.
Push(op, cell) ==
    /\ MayGrow
    /\ notebook' = [notebook EXCEPT !.cells = push_cell(notebook.cells, cell)]
    /\ last' = [before |-> notebook,
                cell |-> cell,
                op |-> op]
    /\ UnchangedParse
    /\ UnchangedTranslate
    /\ UnchangedSession

insert_markdown_cell ==
    \E index \in Indices, source \in MarkdownSources :
        Insert("insert_markdown_cell", index, MarkdownCell(source))

insert_raw_cell ==
    \E index \in Indices, source \in RawSources :
        Insert("insert_raw_cell", index, RawCell(source))

insert_code_cell ==
    \E index \in Indices, source \in CodeSources, run \in Executions :
        Insert("insert_code_cell", index, CodeCell(source, run[1], run[2]))

push_markdown_cell ==
    \E source \in MarkdownSources :
        Push("push_markdown_cell", MarkdownCell(source))

push_raw_cell ==
    \E source \in RawSources : Push("push_raw_cell", RawCell(source))

push_code_cell ==
    \E source \in CodeSources, run \in Executions :
        Push("push_code_cell", CodeCell(source, run[1], run[2]))

\* save_to_str(&self): the notebook is serialized, not changed.
SaveToStr ==
    /\ last.op # "save_to_str"
    /\ document' = save_to_str(notebook, serde_unit)
    /\ last' = [before |-> notebook,
                op |-> "save_to_str"]
    /\ UNCHANGED <<notebook, serde_unit, parsed, resaved, pc>>
    /\ UnchangedTranslate
    /\ UnchangedSession

\* from_str on the string save_to_str has just returned.
FromStr ==
    /\ last.op = "save_to_str"
    /\ document.ok
    /\ parsed' = from_str(document.val)
    /\ last' = [before |-> last.before,
                op |-> "from_str"]
    /\ UNCHANGED <<notebook, serde_unit, document, resaved, pc>>
    /\ UnchangedTranslate
    /\ UnchangedSession

NotStarted == Err("not started")

Init ==
    /\ notebook = DefaultNotebook
    /\ last = [op |-> "default"]
    /\ serde_unit \in BOOLEAN
    /\ document = NotStarted
    /\ parsed = NotStarted
    /\ resaved = NotStarted
    /\ pc = "idle"
    /\ input_mode = "Normal"
    /\ event = [kind |-> "none"]
    /\ command = None
    /\ SessionIdle

Next ==
    \/ insert_markdown_cell
    \/ insert_raw_cell
    \/ insert_code_cell
    \/ push_markdown_cell
    \/ push_raw_cell
    \/ push_code_cell
    \/ SaveToStr
    \/ FromStr

Spec == Init /\ [][Next]_vars

-----------------------------------------------------------------------------
(* The mutation API: insert bounds, shifting, push and the filter views.    *)

\* C1. An insert_*_cell(index, ...) returns true and makes len() one larger
\* exactly when 0 <= index <= len() held before the call; otherwise it
\* returns false and the notebook is as it was.
C1_InsertBounds ==
    last.op \in InsertOps =>
        LET n == len(last.before)
            inRange == 0 <= last.index /\ last.index <= n
        IN  /\ (last.ret /\ len(notebook) = n + 1) <=> inRange
            /\ ~inRange => ~last.ret /\ notebook = last.before

\* An insert one past the end of a notebook that holds cells was refused.
C1_Witness ==
    /\ last.op \in InsertOps
    /\ len(last.before) >= 1
    /\ last.index = len(last.before) + 1
    /\ ~last.ret
    /\ notebook = last.before

\* C2. After a successful insert at index i the new cell is at position i,
\* a cell that was at j < i is still at j and a cell that was at j >= i is at
\* j + 1; after a push every earlier cell is where it was.  (Positions are
\* counted from 0 as in the code; a sequence here starts at 1.)
C2_InsertShifts ==
    LET old == last.before.cells
        new == notebook.cells
    IN  /\ (last.op \in InsertOps /\ last.ret) =>
              /\ new[last.index + 1] = last.cell
              /\ \A j \in 0..(Len(old) - 1) :
                    /\ j < last.index => new[j + 1] = old[j + 1]
                    /\ j >= last.index => new[j + 2] = old[j + 1]
        /\ last.op \in PushOps =>
              \A j \in 0..(Len(old) - 1) : new[j + 1] = old[j + 1]

\* A cell was inserted between two cells that differ.
C2_Witness ==
    /\ last.op \in InsertOps
    /\ last.ret
    /\ last.index = 1
    /\ len(last.before) = 2
    /\ last.before.cells[1] # last.before.cells[2]
    /\ notebook.cells = <<last.before.cells[1], last.cell, last.before.cells[2]>>

\* C3. A push_*_cell gives the notebook that insert_cell(len(), cell) gives
\* from the same notebook, and that insert succeeds: the cell is last, len()
\* is one larger and every earlier cell is where it was.
C3_PushIsInsertAtLen ==
    last.op \in PushOps =>
        LET old == last.before.cells
            r == insert_cell(old, Len(old), last.cell)
        IN  /\ r.ret
            /\ notebook = [last.before EXCEPT !.cells = r.cells]
            /\ len(notebook) = Len(old) + 1
            /\ notebook.cells[len(notebook)] = last.cell
            /\ SubSeq(notebook.cells, 1, Len(old)) = old

\* A cell was pushed onto a notebook that held two cells.
C3_Witness ==
    /\ last.op \in PushOps
    /\ len(last.before) = 2
    /\ len(notebook) = 3
    /\ notebook.cells[3] = last.cell
    /\ last.cell # notebook.cells[1]

\* C4. After a push_code_cell, code_cells() yields one more item than before
\* and markdown_cells() yields as many as before.
C4_FilterViewsLive ==
    last.op = "push_code_cell" =>
        /\ Len(code_cells(notebook)) = Len(code_cells(last.before)) + 1
        /\ Len(markdown_cells(notebook)) = Len(markdown_cells(last.before))

\* A code cell was pushed onto a notebook holding a code and a markdown cell.
C4_Witness ==
    /\ last.op = "push_code_cell"
    /\ Len(code_cells(last.before)) = 1
    /\ Len(markdown_cells(last.before)) = 1
    /\ Len(code_cells(notebook)) = 2

\* The positions of the cells of one variant, and the k-th smallest of them.
PositionsOf(cells, variant) == {i \in DOMAIN cells : cells[i].variant = variant}

KthOf(positions, k) ==
    CHOOSE i \in positions : Cardinality({m \in positions : m < i}) = k - 1

\* view holds exactly the cells of the variant, in document order.
IsViewOf(view, cells, variant) ==
    LET positions == PositionsOf(cells, variant)
    IN  /\ Len(view) = Cardinality(positions)
        /\ \A k \in 1..Len(view) : view[k] = cells[KthOf(positions, k)]

\* C5. code_cells() yields exactly the Code cells and markdown_cells() exactly
\* the Markdown cells, each in document order; a Raw cell is in neither, and
\* the two counts and the number of Raw cells add up to len().
C5_FilterViews ==
    /\ IsViewOf(code_cells(notebook), notebook.cells, "Code")
    /\ IsViewOf(markdown_cells(notebook), notebook.cells, "Markdown")
    /\ \A k \in DOMAIN code_cells(notebook) :
          code_cells(notebook)[k].variant # "Raw"
    /\ \A k \in DOMAIN markdown_cells(notebook) :
          markdown_cells(notebook)[k].variant # "Raw"
    /\ Len(code_cells(notebook)) + Len(markdown_cells(notebook))
          + Cardinality(PositionsOf(notebook.cells, "Raw")) = len(notebook)

\* Two different markdown cells with a raw cell between them.
C5_Witness ==
    /\ len(notebook) = 3
    /\ notebook.cells[2].variant = "Raw"
    /\ markdown_cells(notebook) = <<notebook.cells[1], notebook.cells[3]>>
    /\ notebook.cells[1] # notebook.cells[3]
    /\ code_cells(notebook) = <<>>

-----------------------------------------------------------------------------
(* Round trip of a notebook built with the mutation API.                    *)

\* C6. For a notebook built from the default one by inserts and pushes,
\* save_to_str succeeds, from_str of the string succeeds and the notebook it
\* yields equals the one saved in every field, the metadata's other included.
C6_RoundTripBuilt ==
    /\ last.op = "save_to_str" => document.ok
    /\ last.op = "from_str" => parsed.ok /\ parsed.val = last.before

-----------------------------------------------------------------------------
(* Parsing documents.  The documents are the serializations of sample cells *)
(* and outputs, edited the way a foreign or damaged file differs: a tag     *)
(* replaced, a field removed, an entry added.                               *)

\* A document holds at most this many cells.
MaxDocCells == 2

With(j, key, value) ==
    JObj([k \in (DOMAIN j.v) \cup {key} |-> IF k = key THEN value ELSE j.v[k]])

Without(j, key) == JObj([k \in (DOMAIN j.v) \ {key} |-> j.v[k]])

\* An entry that may be absent: None, or Some(value).
Put(j, key, entry) == IF entry = None THEN j ELSE With(j, key, entry[1])

StreamDoc == SerOutput(stream_stdout("hi"))
ResultDoc == SerOutput(execute_result(1, "1"))
\* nbformat 3 called an execute_result a pyout.
PyoutDoc == With(ResultDoc, "output_type", JStr("pyout"))

OutputDocLists ==
    {<<>>, <<StreamDoc>>, <<PyoutDoc>>, <<ResultDoc, PyoutDoc>>}

MarkdownDoc == SerCell(MarkdownCell(<<"# Title">>))
RawDoc == SerCell(RawCell(<<"raw">>))
CodeDoc(outputs) ==
    With(SerCell(CodeCell(<<"x=1">>, Some(1), <<>>)), "outputs", JArr(outputs))

CellDocs ==
    {CodeDoc(outputs) : outputs \in OutputDocLists}
    \cup {MarkdownDoc,
          RawDoc,
          SerCell(CodeCell(<<"x=1">>, None, <<>>)),
          \* a cell type of nbformat 3, and a tag in the wrong case
          With(MarkdownDoc, "cell_type", JStr("heading")),
          With(CodeDoc(<<>>), "cell_type", JStr("Code")),
          \* no tag at all
          Without(MarkdownDoc, "cell_type"),
          \* a field a markdown cell does not have
          With(MarkdownDoc, "outputs", JArr(<<PyoutDoc>>))}

CellDocLists ==
    UNION {[1..n -> CellDocs] : n \in 0..MaxDocCells}

KernelspecDoc ==
    JObj([display_name |-> JStr("Python 3"), name |-> JStr("python3")])

LanguageInfoDoc ==
    JObj([codemirror_mode |-> JStr("ipython"), name |-> JStr("python"),
          version |-> JStr("3.12")])

\* The top-level metadata: each entry absent or present; authors and widgets
\* are keys the model does not name.
MetadataDocs ==
    {Put(Put(Put(Put(EmptyObject, "kernelspec", k), "language_info", l),
             "authors", a), "widgets", w) :
        k \in {None, Some(JNull), Some(KernelspecDoc), Some(JNum(3))},
        l \in {None, Some(LanguageInfoDoc)},
        a \in {None, Some(JNull), Some(JArr(<<JStr("ada")>>))},
        w \in {None, Some(JObj([state |-> JNum(1)]))}}

NotebookDoc(cells, metadata) ==
    JObj([cells |-> JArr(cells), metadata |-> metadata,
          nbformat |-> JNum(4), nbformat_minor |-> JNum(5)])

PlainDoc == NotebookDoc(<<MarkdownDoc>>, EmptyObject)

\* Every cell list under three metadata objects, and every metadata object
\* over the cell lists of at most one cell.
Documents ==
    {NotebookDoc(cells, metadata) :
        cells \in CellDocLists,
        metadata \in {EmptyObject,
                      Put(With(EmptyObject, "authors", JArr(<<JStr("ada")>>)),
                          "kernelspec", Some(KernelspecDoc)),
                      With(EmptyObject, "kernelspec", JNum(3))}}
    \cup {NotebookDoc(cells, metadata) :
        cells \in {<<>>} \cup {<<c>> : c \in CellDocs},
        metadata \in MetadataDocs}
    \cup {Without(PlainDoc, "metadata"),
          With(PlainDoc, "metadata", JNull),
          With(PlainDoc, "nbformat", JNum(U8Max + 1)),
          With(PlainDoc, "cells", JNull),
          JArr(<<>>)}

\* from_str(s) on a document that was read.
ParseDocument ==
    /\ pc = "read"
    /\ parsed' = from_str(document.val)
    /\ pc' = "parsed"
    /\ UNCHANGED <<notebook, last, serde_unit, document, resaved>>
    /\ UnchangedTranslate
    /\ UnchangedSession

\* save_to_str(&self) on the notebook from_str returned.
SaveParsed ==
    /\ pc = "parsed"
    /\ parsed.ok
    /\ resaved' = save_to_str(parsed.val, serde_unit)
    /\ pc' = "saved"
    /\ UNCHANGED <<notebook, last, serde_unit, document, parsed>>
    /\ UnchangedTranslate
    /\ UnchangedSession

InitParse ==
    /\ notebook = DefaultNotebook
    /\ last = [op |-> "default"]
    /\ serde_unit \in BOOLEAN
    /\ document \in {Ok(d) : d \in Documents}
    /\ parsed = NotStarted
    /\ resaved = NotStarted
    /\ pc = "read"
    /\ input_mode = "Normal"
    /\ event = [kind |-> "none"]
    /\ command = None
    /\ SessionIdle

NextParse ==
    \/ ParseDocument
    \/ SaveParsed

SpecParse == InitParse /\ [][NextParse]_vars

-----------------------------------------------------------------------------
(* Parsing: unknown metadata keys and unknown discriminators.               *)

\* The keys of the top-level metadata object that the model does not name.
UnnamedMetadataKeys(doc) ==
    (DOMAIN doc.v["metadata"].v) \ {"kernelspec", "language_info"}

\* C7. When a document that parses has a top-level metadata key other than
\* kernelspec and language_info, the document written by save_to_str for the
\* parsed notebook has that key in its metadata, with the same value.
C7_UnknownMetadataKept ==
    pc = "saved" =>
        \A k \in UnnamedMetadataKeys(document.val) :
            /\ resaved.ok
            /\ Has(resaved.val.v["metadata"], k)
            /\ resaved.val.v["metadata"].v[k] = document.val.v["metadata"].v[k]

\* A document with a kernelspec and two unnamed keys was parsed and saved.
C7_Witness ==
    /\ pc = "saved"
    /\ UnnamedMetadataKeys(document.val) = {"authors", "widgets"}
    /\ Has(document.val.v["metadata"], "kernelspec")
    /\ resaved.ok
    /\ resaved.val.v["metadata"].v["authors"] = JArr(<<JStr("ada")>>)
    /\ resaved.val.v["metadata"].v["widgets"].t = "obj"

CellTypes == {"code", "markdown", "raw"}
OutputTypes == {"display_data", "error", "execute_result", "stream"}

IsTagged(j, key) == j.t = "obj" /\ Has(j, key) /\ IsString(j.v[key])

\* The cells of a document that has a cell array.
CellsOf(doc) ==
    IF doc.t = "obj" /\ Has(doc, "cells") /\ doc.v["cells"].t = "arr"
    THEN doc.v["cells"].v ELSE <<>>

\* The outputs of a code cell that has an output array.
OutputsOf(cell) ==
    IF IsTagged(cell, "cell_type") /\ cell.v["cell_type"].v = "code"
       /\ Has(cell, "outputs") /\ cell.v["outputs"].t = "arr"
    THEN cell.v["outputs"].v ELSE <<>>

HasUnknownCellType(doc) ==
    \E i \in DOMAIN CellsOf(doc) :
        /\ IsTagged(CellsOf(doc)[i], "cell_type")
        /\ CellsOf(doc)[i].v["cell_type"].v \notin CellTypes

HasUnknownOutputType(doc) ==
    \E i \in DOMAIN CellsOf(doc) :
        \E k \in DOMAIN OutputsOf(CellsOf(doc)[i]) :
            /\ IsTagged(OutputsOf(CellsOf(doc)[i])[k], "output_type")
            /\ OutputsOf(CellsOf(doc)[i])[k].v["output_type"].v \notin OutputTypes

\* C8. from_str of a document in which a cell has a cell_type other than
\* code, markdown and raw, or an output of a code cell has an output_type
\* other than stream, execute_result, display_data and error, is an error and
\* carries no Notebook.
C8_UnknownTagFails ==
    (pc # "read" /\ (HasUnknownCellType(document.val)
                     \/ HasUnknownOutputType(document.val))) =>
        /\ ~parsed.ok
        /\ "val" \notin DOMAIN parsed

\* A document whose first cell is a good code cell and whose second cell has
\* an unknown cell_type was refused.
C8_Witness ==
    /\ pc = "parsed"
    /\ Len(CellsOf(document.val)) = 2
    /\ DeCell(CellsOf(document.val)[1]).ok
    /\ IsTagged(CellsOf(document.val)[2], "cell_type")
    /\ CellsOf(document.val)[2].v["cell_type"].v = "heading"
    /\ ~HasUnknownOutputType(document.val)
    /\ DeNotebookMetadata(document.val.v["metadata"]).ok
    /\ ~parsed.ok

-----------------------------------------------------------------------------
(* input_mode.rs, editor_commands.rs, event_translator.rs.                  *)
(* A KeyCode is <<"Esc">> or <<"Char", c>>; KeyModifiers is the set of the  *)
(* flags that are set; an EditorCommand is the tuple of its name and its    *)
(* arguments.                                                               *)

\* enum InputMode.
InputModes ==
    {"Command", "Insert", "Normal", "Replace", "UICursor", "Visual",
     "VisualBlock", "VisualLine"}

Char(c) == <<"Char", c>>
Esc == <<"Esc">>
Tab == <<"Tab">>

NONE == {}
CONTROL == {"CONTROL"}
SHIFT == {"SHIFT"}

Quit == <<"Quit">>
ToLeftPane == <<"ToLeftPane">>
ToRightPane == <<"ToRightPane">>
ToUpperPane == <<"ToUpperPane">>
ToLowerPane == <<"ToLowerPane">>
Input(text) == <<"Input", text>>
DeletePreviousWord == <<"DeletePreviousWord">>
SwitchToInsertMode == <<"SwitchToInsertMode">>
SwitchToNormalMode == <<"SwitchToNormalMode">>
SwitchToVisualMode == <<"SwitchToVisualMode">>
SwitchToVisualLineMode == <<"SwitchToVisualLineMode">>
SwitchToVisualBlockMode == <<"SwitchToVisualBlockMode">>

\* HashMap::insert calls in program order, each <<key, command>> with the key
\* <<code, modifiers>>.  A map is the list of the inserts made into it.
normal_mode_event_map ==
    << <<<<Char("q"), CONTROL>>, Quit>>,
       <<<<Char("h"), CONTROL>>, ToLeftPane>>,
       <<<<Char("l"), CONTROL>>, ToRightPane>>,
       <<<<Char("j"), CONTROL>>, ToUpperPane>>,
       <<<<Char("k"), CONTROL>>, ToLowerPane>>,
       <<<<Char("i"), CONTROL>>, SwitchToInsertMode>>,
       <<<<Char("v"), CONTROL>>, SwitchToVisualMode>>,
       <<<<Char("V"), NONE>>, SwitchToVisualLineMode>>,
       <<<<Char("v"), CONTROL>>, SwitchToVisualBlockMode>> >>

insert_mode_event_map ==
    << <<<<Char("i"), CONTROL>>, Input("\t")>>,
       <<<<Char("c"), CONTROL>>, SwitchToNormalMode>>,
       <<<<Char("w"), CONTROL>>, DeletePreviousWord>>,
       <<<<Esc, NONE>>, SwitchToNormalMode>> >>

visual_mode_event_map == <<>>
visual_line_mode_event_map == <<>>
visual_block_mode_event_map == <<>>
command_mode_event_map == <<>>
ui_cursor_mode_event_map == <<>>

\* HashMap::get(&key).cloned(): the command of the last insert under the key.
MapGet(map, key) ==
    LET hits == {i \in DOMAIN map : map[i][1] = key}
    IN  IF hits = {} THEN None
        ELSE Some(map[CHOOSE i \in hits : \A k \in hits : k <= i][2])

\* The match of translate_key_event has no arm for InputMode::Replace and
\* the translator has no map for it: the function has no result there.
NoMatchArm == <<"non-exhaustive patterns", "InputMode::Replace not covered">>

\* A slip of the translator: one table shared by every mode.
translate_key_event_shared(key_event, mode) ==
    MapGet(normal_mode_event_map \o insert_mode_event_map,
           <<key_event.code, key_event.modifiers>>)

translate_key_event(key_event, mode) ==
    LET key == <<key_event.code, key_event.modifiers>>
    IN CASE mode = "Normal" -> MapGet(normal_mode_event_map, key)
         [] mode = "Insert" -> MapGet(insert_mode_event_map, key)
         [] mode = "Visual" -> MapGet(visual_mode_event_map, key)
         [] mode = "VisualLine" -> MapGet(visual_line_mode_event_map, key)
         [] mode = "VisualBlock" -> MapGet(visual_block_mode_event_map, key)
         [] mode = "Command" -> MapGet(command_mode_event_map, key)
         [] mode = "UICursor" -> MapGet(ui_cursor_mode_event_map, key)
         [] OTHER -> NoMatchArm

translate_event(ev, mode) ==
    IF ev.kind = "Key" THEN translate_key_event(ev, mode) ELSE None

\* The events handed to the translator: every key code the default maps
\* bind, two they do not, under four modifier sets, and three other events.
KeyCodes ==
    {Esc, Tab} \cup {Char(c) : c \in {"V", "c", "h", "i", "j", "k", "l",
                                     "q", "v", "w", "x"}}

ModifierSets == {NONE, CONTROL, SHIFT, CONTROL \cup SHIFT}

Events ==
    {[code |-> code, kind |-> "Key", modifiers |-> modifiers] :
        code \in KeyCodes, modifiers \in ModifierSets}
    \cup {[kind |-> "FocusGained"], [kind |-> "Mouse"], [kind |-> "Resize"]}

\* translate_event(event, input_mode).
TranslateEvent ==
    /\ pc = "event"
    /\ command' = translate_event(event, input_mode)
    /\ pc' = "translated"
    /\ UNCHANGED <<notebook, last, serde_unit, document, parsed, resaved,
                   input_mode, event>>
    /\ UnchangedSession

InitTranslate ==
    /\ notebook = DefaultNotebook
    /\ last = [op |-> "default"]
    /\ serde_unit = TRUE
    /\ document = NotStarted
    /\ parsed = NotStarted
    /\ resaved = NotStarted
    /\ pc = "event"
    /\ input_mode \in InputModes
    /\ event \in Events
    /\ command = None
    /\ SessionIdle

NextTranslate == TranslateEvent

SpecTranslate == InitTranslate /\ [][NextTranslate]_vars

-----------------------------------------------------------------------------
(* The translator: mode isolation and totality.                             *)

KeyOf(ev) == <<ev.code, ev.modifiers>>

BoundKeys(map) == {map[i][1] : i \in DOMAIN map}

\* The keys the translator binds in Insert mode and in no other mode.
InsertOnlyKeys ==
    BoundKeys(insert_mode_event_map)
    \ (BoundKeys(normal_mode_event_map) \cup BoundKeys(visual_mode_event_map)
       \cup BoundKeys(visual_line_mode_event_map)
       \cup BoundKeys(visual_block_mode_event_map)
       \cup BoundKeys(command_mode_event_map)
       \cup BoundKeys(ui_cursor_mode_event_map))

\* C9. A key bound only in Insert mode (Ctrl+W, Ctrl+C and Esc; Ctrl+W is
\* bound to DeletePreviousWord) translates to None in Normal mode and to the
\* command bound to it in Insert mode.
C9_ModeIsolation ==
    /\ InsertOnlyKeys = {<<Char("c"), CONTROL>>, <<Char("w"), CONTROL>>,
                         <<Esc, NONE>>}
    /\ (pc = "translated" /\ event.kind = "Key"
        /\ KeyOf(event) \in InsertOnlyKeys) =>
          /\ input_mode = "Normal" => command = None
          /\ input_mode = "Insert" =>
                command = Some(IF KeyOf(event) = <<Char("w"), CONTROL>>
                               THEN DeletePreviousWord
                               ELSE SwitchToNormalMode)

\* Ctrl+W was translated in Insert mode.
C9_Witness ==
    /\ pc = "translated"
    /\ input_mode = "Insert"
    /\ event = [code |-> Char("w"), kind |-> "Key", modifiers |-> CONTROL]
    /\ command = Some(DeletePreviousWord)

\* The binding table the translator holds for a mode; none for Replace.
TableOf(mode) ==
    CASE mode = "Normal" -> normal_mode_event_map
      [] mode = "Insert" -> insert_mode_event_map
      [] mode = "Visual" -> visual_mode_event_map
      [] mode = "VisualLine" -> visual_line_mode_event_map
      [] mode = "VisualBlock" -> visual_block_mode_event_map
      [] mode = "Command" -> command_mode_event_map
      [] mode = "UICursor" -> ui_cursor_mode_event_map
      [] OTHER -> <<>>

\* C10. In each of the eight modes and for every event, translate returns
\* the command the mode's table binds to the exact (key code, modifiers) pair
\* of a key event, and None when the pair is not bound or the event is not a
\* key event.
C10_TranslateTotal ==
    pc = "translated" =>
        command = IF event.kind = "Key"
                  THEN MapGet(TableOf(input_mode), KeyOf(event))
                  ELSE None

-----------------------------------------------------------------------------
(* tui/editor_commands.rs: the commands and the dispatcher.                 *)

SwitchToReplaceMode == <<"SwitchToReplaceMode">>
SwitchToCommandMode == <<"SwitchToCommandMode">>
Undo == <<"Undo">>
Redo == <<"Redo">>
Repeat(inner, count) == <<"Repeat", inner, count>>
Replace(text) == <<"Replace", text>>
SaveFile == <<"SaveFile">>
\* DeleteText, DeleteLine, DeleteWord, DeletePreviousWord, DeleteToEndOfLine,
\* DeleteToStartOfLine, DeleteToEndOfFile, DeleteToStartOfFile.
DeleteCommands ==
    {<<"DeleteLine">>, <<"DeletePreviousWord">>, <<"DeleteText">>,
     <<"DeleteToEndOfFile">>, <<"DeleteToEndOfLine">>,
     <<"DeleteToStartOfFile">>, <<"DeleteToStartOfLine">>, <<"DeleteWord">>}
Copy == <<"Copy">>
Cut == <<"Cut">>
Paste == <<"Paste">>
Concatenate == <<"Concatenate">>

\* A slip of the dispatcher: moving to another pane enters the UI cursor mode.
execute_command_pane_cursor(self, cmd) ==
    CASE cmd = Quit -> [self EXCEPT !.leaving = TRUE]
      [] cmd \in {ToLeftPane, ToRightPane, ToUpperPane, ToLowerPane} ->
            [self EXCEPT !.input_mode = "UICursor"]
      [] OTHER -> self

\* A slip of the dispatcher: Input edits the focused tab whatever its flags.
execute_command_input_edits(self, cmd) ==
    CASE cmd = Quit -> [self EXCEPT !.leaving = TRUE]
      [] cmd[1] = "Input" ->
            [self EXCEPT !.tabs[self.tab_selected + 1].is_dirty = TRUE]
      [] OTHER -> self

\* NotebookApp::execute_command(&mut self, command): the app afterwards.
\* Quit sets the flag; every other command falls to the arm that does nothing.
execute_command(self, cmd) ==
    CASE cmd = Quit -> [self EXCEPT !.leaving = TRUE]
      [] OTHER -> self

\* The most times a Repeat command of the model repeats.
MaxRepeat == 3

ModeSwitchCommands ==
    {SwitchToCommandMode, SwitchToInsertMode, SwitchToNormalMode,
     SwitchToReplaceMode, SwitchToVisualBlockMode, SwitchToVisualLineMode,
     SwitchToVisualMode}

\* The commands that change a document.
MutatingCommands ==
    {Concatenate, Cut, Paste, Redo, Undo, Input("a"), Replace("b")}
    \cup DeleteCommands

RepeatCommands ==
    {Repeat(inner, count) :
        inner \in {Quit, SwitchToInsertMode, ToLeftPane, Input("a")},
        count \in 0..MaxRepeat}

\* The commands handed to the dispatcher.
Commands ==
    {Copy, Quit, SaveFile, ToLeftPane, ToLowerPane, ToRightPane, ToUpperPane}
    \cup ModeSwitchCommands \cup MutatingCommands \cup RepeatCommands

-----------------------------------------------------------------------------
(* A session: the application of app.rs, the translator called with the     *)
(* application's mode, and the dispatcher called with a command.            *)

\* The events and commands of a session.
SessionEvents ==
    {[code |-> Char(c), kind |-> "Key", modifiers |-> CONTROL] :
        c \in {"i", "q", "v", "w"}}
    \cup {[code |-> Char("V"), kind |-> "Key", modifiers |-> NONE],
          [code |-> Esc, kind |-> "Key", modifiers |-> NONE],
          [kind |-> "Resize"]}

SessionCommands ==
    {Quit, SaveFile, ToLeftPane, Input("a"), Repeat(Quit, MaxRepeat)}
    \cup ModeSwitchCommands

\* translator.translate_event(event, app.input_mode).
SessionTranslate ==
    \E ev \in SessionEvents :
        /\ pc = "session"
        /\ event' = ev
        /\ input_mode' = app.input_mode
        /\ command' = translate_event(ev, app.input_mode)
        /\ last' = [op |-> "translate_event"]
        /\ UNCHANGED <<notebook, pc, app, selected, trace>>
        /\ UNCHANGED <<serde_unit, document, parsed, resaved>>
        /\ UnchangedIo

\* app.execute_command(command).
SessionExecute ==
    \E cmd \in SessionCommands :
        /\ pc = "session"
        /\ app' = execute_command(app, cmd)
        /\ command' = None
        /\ last' = [before |-> app, command |-> cmd, op |-> "execute_command"]
        /\ UNCHANGED <<notebook, pc, input_mode, event, selected, trace>>
        /\ UNCHANGED <<serde_unit, document, parsed, resaved>>
        /\ UnchangedIo

InitSession ==
    /\ notebook = DefaultNotebook
    /\ last = [op |-> "default"]
    /\ serde_unit = TRUE
    /\ document = NotStarted
    /\ parsed = NotStarted
    /\ resaved = NotStarted
    /\ pc = "session"
    /\ input_mode = "Normal"
    /\ event = [kind |-> "none"]
    /\ command = None
    /\ SessionIdle

NextSession ==
    \/ SessionTranslate
    \/ SessionExecute

SpecSession == InitSession /\ [][NextSession]_vars

\* C11. The mode starts as Normal; a step changes the mode only if it is a
\* dispatcher step that consumed a mode-switch command; a translate step
\* leaves the application, mode included, as it was.
C11_ModeChangesInDispatcherOnly ==
    /\ app.input_mode = "Normal"
    /\ [][/\ app'.input_mode # app.input_mode =>
                /\ last'.op = "execute_command"
                /\ last'.command \in ModeSwitchCommands
          /\ last'.op = "translate_event" => app' = app]_vars

\* The translator returned a mode-switch command and the mode is unchanged.
C11_Witness ==
    /\ last.op = "translate_event"
    /\ command = Some(SwitchToInsertMode)
    /\ app = DefaultApp

-----------------------------------------------------------------------------
(* The dispatcher as a function of the application: execute_command applied *)
(* to applications in every mode, with the flag set or not, one or two      *)
(* tabs, each dirty or not and read-only or not.                            *)

Apps ==
    LET flagged == {[DefaultEditorTab EXCEPT !.is_dirty = d,
                                             !.is_read_only = r] :
                       d \in BOOLEAN, r \in BOOLEAN}
        tabs == {<<t>> : t \in flagged}
                \cup {<<DefaultEditorTab, t>> : t \in flagged}
    IN  {a \in [file_path : {None},
                input_mode : InputModes,
                leaving : BOOLEAN,
                left_pane_mode : {None},
                right_pane_mode : {None},
                tab_selected : 0..1,
                tabs : tabs] : a.tab_selected < Len(a.tabs)}

\* app.execute_command(command).
ExecuteCommand ==
    \E cmd \in Commands :
        /\ pc = "dispatch"
        /\ app' = execute_command(app, cmd)
        /\ last' = [before |-> app, command |-> cmd, op |-> "execute_command"]
        /\ UNCHANGED <<notebook, pc, selected, trace>>
        /\ UnchangedParse
        /\ UnchangedTranslate
        /\ UnchangedIo

InitDispatch ==
    /\ notebook = DefaultNotebook
    /\ last = [op |-> "default"]
    /\ serde_unit = TRUE
    /\ document = NotStarted
    /\ parsed = NotStarted
    /\ resaved = NotStarted
    /\ pc = "dispatch"
    /\ input_mode = "Normal"
    /\ event = [kind |-> "none"]
    /\ command = None
    /\ app \in Apps
    /\ selected = 0
    /\ terminal = CookedTerminal
    /\ files = NoFiles
    /\ trace = NoTrace
    /\ returned = NotStarted

NextDispatch == ExecuteCommand

SpecDispatch == InitDispatch /\ [][NextDispatch]_vars

\* The mode a mode-switch command names.
ModeNamedBy(cmd) ==
    CASE cmd = SwitchToInsertMode -> "Insert"
      [] cmd = SwitchToNormalMode -> "Normal"
      [] cmd = SwitchToVisualMode -> "Visual"
      [] cmd = SwitchToVisualLineMode -> "VisualLine"
      [] cmd = SwitchToVisualBlockMode -> "VisualBlock"
      [] cmd = SwitchToReplaceMode -> "Replace"
      [] cmd = SwitchToCommandMode -> "Command"

\* C12. After a mode-switch command was executed, from any mode, the
\* application is in the mode the command names and is otherwise as before.
C12_ModeSwitchSetsMode ==
    (last.op = "execute_command" /\ last.command \in ModeSwitchCommands) =>
        app = [last.before EXCEPT !.input_mode = ModeNamedBy(last.command)]

\* C13. After Repeat(Quit, 3) was executed with the termination flag unset,
\* the flag is set and the application equals the one after a single Quit.
C13_RepeatQuitThrice ==
    (/\ last.op = "execute_command"
     /\ last.command = Repeat(Quit, 3)
     /\ ~last.before.leaving) =>
        /\ app.leaving
        /\ app = execute_command(last.before, Quit)

RECURSIVE ExecuteTimes(_, _, _)
\* The application after cmd was executed count times in sequence.
ExecuteTimes(self, cmd, count) ==
    IF count = 0 THEN self
    ELSE ExecuteTimes(execute_command(self, cmd), cmd, count - 1)

\* C14. After Repeat(inner, n) was executed, the application equals the one
\* reached by executing inner n times in sequence from the same start.
C14_RepeatIsIteration ==
    (last.op = "execute_command" /\ last.command[1] = "Repeat") =>
        app = ExecuteTimes(last.before, last.command[2], last.command[3])

\* C19. After a document-mutating command was executed while the focused
\* tab was read-only, that tab's notebook and dirty flag are as before.
C19_ReadOnlyNoOp ==
    (/\ last.op = "execute_command"
     /\ last.command \in MutatingCommands
     /\ last.before.tabs[last.before.tab_selected + 1].is_read_only) =>
        LET focused == last.before.tab_selected + 1
        IN  /\ app.tab_selected = last.before.tab_selected
            /\ app.tabs[focused].content = last.before.tabs[focused].content
            /\ app.tabs[focused].is_dirty = last.before.tabs[focused].is_dirty

\* Input was executed with the second of two tabs focused, read-only, clean.
C19_Witness ==
    /\ last.op = "execute_command"
    /\ last.command = Input("a")
    /\ last.before.tab_selected = 1
    /\ last.before.tabs[2].is_read_only
    /\ ~last.before.tabs[2].is_dirty
    /\ app = last.before

-----------------------------------------------------------------------------
(* tui/app.rs: run() and ui_loop.  Every call that returns io::Result       *)
(* either succeeds or fails.  The application may have executed commands    *)
(* before run() is called.                                                  *)

\* The most events a run of the loop reads.
MaxEvents == 2

\* The events event::read() returns to the loop.
LoopEvents ==
    {[code |-> Char("h"), kind |-> "Key", modifiers |-> CONTROL],
     [code |-> Char("q"), kind |-> "Key", modifiers |-> CONTROL],
     [code |-> Char("q"), kind |-> "Key", modifiers |-> NONE],
     [code |-> Char("x"), kind |-> "Key", modifiers |-> NONE],
     [kind |-> "Resize"]}

\* The terminal after a call was made with the given outcome.
Called(term, call, ok) ==
    [term EXCEPT !.calls = Append(@, [call |-> call, ok |-> ok])]

LoopFrame ==
    UNCHANGED <<notebook, serde_unit, document, parsed, resaved, input_mode,
                event, command, selected, files>>

\* app.execute_command(command), before app.run().
ExecuteBeforeRun ==
    \E cmd \in {Quit, SwitchToInsertMode} :
        /\ pc = "new"
        /\ app' = execute_command(app, cmd)
        /\ last' = [before |-> app, command |-> cmd, op |-> "execute_command"]
        /\ UNCHANGED <<pc, terminal, trace, returned>>
        /\ LoopFrame

\* run(): enable_raw_mode()?
EnableRawMode ==
    /\ pc = "new"
    /\ \E ok \in BOOLEAN :
        /\ terminal' = [Called(terminal, "enable_raw_mode", ok)
                           EXCEPT !.raw_mode = ok]
        /\ pc' = IF ok THEN "enter_alternate_screen" ELSE "returned"
        /\ returned' = IF ok THEN returned ELSE Err("enable_raw_mode")
    /\ UNCHANGED <<last, app, trace>>
    /\ LoopFrame

\* run(): execute!(stdout, EnterAlternateScreen, EnableMouseCapture)?  The
\* commands are written in order; a failure leaves the first applied written.
EnterAlternateScreen ==
    /\ pc = "enter_alternate_screen"
    /\ \E ok \in BOOLEAN, applied \in 0..2 :
        /\ ok => applied = 2
        /\ terminal' = [Called(terminal, "enter_alternate_screen", ok)
                           EXCEPT !.alternate_screen = applied >= 1,
                                  !.mouse_capture = applied = 2]
        /\ pc' = IF ok THEN "terminal_new" ELSE "returned"
        /\ returned' = IF ok THEN returned ELSE Err("enter_alternate_screen")
    /\ UNCHANGED <<last, app, trace>>
    /\ LoopFrame

\* run(): Terminal::new(backend)?
TerminalNew ==
    /\ pc = "terminal_new"
    /\ \E ok \in BOOLEAN :
        /\ terminal' = Called(terminal, "terminal_new", ok)
        /\ pc' = IF ok THEN "draw" ELSE "returned"
        /\ returned' = IF ok THEN returned ELSE Err("terminal_new")
    /\ UNCHANGED <<last, app, trace>>
    /\ LoopFrame

\* ui_loop: terminal.draw(..)?; an error ends the loop, run() keeps it in res.
Draw ==
    /\ pc = "draw"
    /\ \E ok \in BOOLEAN :
        /\ pc' = IF ok THEN "poll" ELSE "disable_raw_mode"
        /\ returned' = IF ok THEN returned ELSE Err("draw")
    /\ UNCHANGED <<last, app, terminal, trace>>
    /\ LoopFrame

\* ui_loop: event::poll(250 ms)?: an event is ready, none is, or an error.
Poll ==
    /\ pc = "poll"
    /\ \E outcome \in {"error", "none", "ready"} :
        /\ outcome = "ready" => Len(trace.read) < MaxEvents
        /\ pc' = CASE outcome = "ready" -> "read"
                   [] outcome = "none" -> "draw"
                   [] outcome = "error" -> "disable_raw_mode"
        /\ returned' = IF outcome = "error" THEN Err("poll") ELSE returned
    /\ UNCHANGED <<last, app, terminal, trace>>
    /\ LoopFrame

\* A slip of the loop: only a plain q, without modifiers, breaks.
Read_plain_q ==
    /\ pc = "read"
    /\ \/ /\ pc' = "disable_raw_mode"
          /\ returned' = Err("read")
          /\ UNCHANGED trace
       \/ \E ev \in LoopEvents :
            /\ trace' = [trace EXCEPT !.read = Append(@, ev)]
            /\ IF ev.kind = "Key" /\ ev.code = Char("q")
                  /\ ev.modifiers = NONE
               THEN pc' = "disable_raw_mode" /\ returned' = Ok("()")
               ELSE pc' = "draw" /\ UNCHANGED returned
    /\ UNCHANGED <<last, app, terminal>>
    /\ LoopFrame

\* ui_loop: event::read()? and the match on key.code: Char('q') breaks with
\* Ok(()), every other event is dropped.
Read ==
    /\ pc = "read"
    /\ \/ /\ pc' = "disable_raw_mode"
          /\ returned' = Err("read")
          /\ UNCHANGED trace
       \/ \E ev \in LoopEvents :
            /\ trace' = [trace EXCEPT !.read = Append(@, ev)]
            /\ IF ev.kind = "Key" /\ ev.code = Char("q")
               THEN pc' = "disable_raw_mode" /\ returned' = Ok("()")
               ELSE pc' = "draw" /\ UNCHANGED returned
    /\ UNCHANGED <<last, app, terminal>>
    /\ LoopFrame

\* run(): disable_raw_mode()?
DisableRawMode ==
    /\ pc = "disable_raw_mode"
    /\ \E ok \in BOOLEAN :
        /\ terminal' = [Called(terminal, "disable_raw_mode", ok)
                           EXCEPT !.raw_mode = IF ok THEN FALSE ELSE @]
        /\ pc' = IF ok THEN "leave_alternate_screen" ELSE "returned"
        /\ returned' = IF ok THEN returned ELSE Err("disable_raw_mode")
    /\ UNCHANGED <<last, app, trace>>
    /\ LoopFrame

\* run(): execute!(terminal.backend_mut(), LeaveAlternateScreen,
\* DisableMouseCapture)?
LeaveAlternateScreen ==
    /\ pc = "leave_alternate_screen"
    /\ \E ok \in BOOLEAN, applied \in 0..2 :
        /\ ok => applied = 2
        /\ terminal' = [Called(terminal, "leave_alternate_screen", ok)
                           EXCEPT !.alternate_screen = IF applied >= 1
                                                       THEN FALSE ELSE @,
                                  !.mouse_capture = IF applied = 2
                                                    THEN FALSE ELSE @]
        /\ pc' = IF ok THEN "show_cursor" ELSE "returned"
        /\ returned' = IF ok THEN returned ELSE Err("leave_alternate_screen")
    /\ UNCHANGED <<last, app, trace>>
    /\ LoopFrame

\* run(): terminal.show_cursor()?; then res, the loop's result.
ShowCursor ==
    /\ pc = "show_cursor"
    /\ \E ok \in BOOLEAN :
        /\ terminal' = Called(terminal, "show_cursor", ok)
        /\ returned' = IF ok THEN returned ELSE Err("show_cursor")
    /\ pc' = "returned"
    /\ UNCHANGED <<last, app, trace>>
    /\ LoopFrame

InitLoop ==
    /\ notebook = DefaultNotebook
    /\ last = [op |-> "default"]
    /\ serde_unit = TRUE
    /\ document = NotStarted
    /\ parsed = NotStarted
    /\ resaved = NotStarted
    /\ pc = "new"
    /\ input_mode = "Normal"
    /\ event = [kind |-> "none"]
    /\ command = None
    /\ SessionIdle

NextLoop ==
    \/ ExecuteBeforeRun
    \/ EnableRawMode
    \/ EnterAlternateScreen
    \/ TerminalNew
    \/ Draw
    \/ Poll
    \/ Read
    \/ DisableRawMode
    \/ LeaveAlternateScreen
    \/ ShowCursor

SpecLoop == InitLoop /\ [][NextLoop]_vars

\* C15. Once Quit has been executed the termination flag is set and it
\* stays set, and the loop does not go on to read an input event: with the
\* flag set it has read none and is not about to read one.
C15_QuitEndsLoop ==
    /\ []((last.op = "execute_command" /\ last.command = Quit) =>
            app.leaving)
    /\ [][app.leaving => app'.leaving]_vars
    /\ [](app.leaving => (trace.read = <<>> /\ pc # "read"))

RECURSIVE TranslationsOf(_, _)
\* The commands translate_event returns for the events, in their order.
TranslationsOf(events, mode) ==
    IF events = <<>> THEN <<>>
    ELSE LET c == translate_event(Head(events), mode)
         IN  (IF c = None THEN <<>> ELSE c)
             \o TranslationsOf(Tail(events), mode)

\* C16. Whenever the loop is about to look for the next event, the commands
\* it has executed are exactly the translations, under the application's
\* mode, of the key events it has read so far, in read order.
C16_CommandsFollowEvents ==
    pc \in {"draw", "poll"} =>
        trace.executed = TranslationsOf(trace.read, app.input_mode)

\* The restoration steps of run().
RestorationCalls ==
    {"disable_raw_mode", "leave_alternate_screen", "show_cursor"}

\* C17. When run() has returned after it put the terminal into raw mode,
\* every restoration step was attempted.
C17_TerminalRestored ==
    (/\ pc = "returned"
     /\ \E i \in DOMAIN terminal.calls :
            terminal.calls[i] = [call |-> "enable_raw_mode", ok |-> TRUE]) =>
        \A call \in RestorationCalls :
            \E i \in DOMAIN terminal.calls : terminal.calls[i].call = call

-----------------------------------------------------------------------------
(* impls.rs: save_to_file.  A path is the sequence of its components; the   *)
(* file system holds the directories that exist, the files written, and the *)
(* calls made on it.  create_dir_all leaves the first made components of    *)
(* the parent in place and succeeds when that is all of them; write         *)
(* succeeds or fails.                                                       *)

\* Path::parent(): None for the empty path.
parent(path) ==
    IF path = <<>> THEN None ELSE Some(SubSeq(path, 1, Len(path) - 1))

\* fs::create_dir_all(dir); the empty path succeeds without a system call.
create_dir_all(fs, dir, made) ==
    [fs EXCEPT !.calls = Append(@, [call |-> "create_dir_all",
                                    ok |-> made = Len(dir),
                                    path |-> dir]),
               !.dirs = @ \cup {SubSeq(dir, 1, k) : k \in 1..made}]

\* fs::write(path, json); writing to the empty path fails.
write(fs, path, json, ok) ==
    [fs EXCEPT !.calls = Append(@, [call |-> "write",
                                    ok |-> ok /\ path # <<>>,
                                    path |-> path]),
               !.written = IF ok /\ path # <<>>
                           THEN @ \cup {[content |-> json, path |-> path]}
                           ELSE @]

\* A slip of save_to_file: the result of create_dir_all is dropped.
save_to_file_unchecked(nb, unit, path, fs, made, write_ok) ==
    LET dir == parent(path)
        fs1 == IF dir = None THEN fs ELSE create_dir_all(fs, dir[1], made)
        json == save_to_str(nb, unit)
        fs2 == write(fs1, path, json.val, write_ok)
    IN  CASE ~json.ok -> [fs |-> fs1, ret |-> Err(<<json.err>>)]
          [] ~fs2.calls[Len(fs2.calls)].ok ->
                [fs |-> fs2,
                 ret |-> Err(<<"Failed to write notebook to file: ", path>>)]
          [] OTHER -> [fs |-> fs2, ret |-> Ok("()")]

\* Notebook::save_to_file(&self, path): the file system afterwards and the
\* value returned.
save_to_file(nb, unit, path, fs, made, write_ok) ==
    LET dir == parent(path)
        fs1 == IF dir = None THEN fs ELSE create_dir_all(fs, dir[1], made)
        json == save_to_str(nb, unit)
        fs2 == write(fs1, path, json.val, write_ok)
    IN  CASE dir # None /\ made # Len(dir[1]) ->
                [fs |-> fs1,
                 ret |-> Err(<<"Failed to create directories for: ", dir[1]>>)]
          [] ~json.ok -> [fs |-> fs1, ret |-> Err(<<json.err>>)]
          [] ~fs2.calls[Len(fs2.calls)].ok ->
                [fs |-> fs2,
                 ret |-> Err(<<"Failed to write notebook to file: ", path>>)]
          [] OTHER -> [fs |-> fs2, ret |-> Ok("()")]

\* The paths handed to save_to_file, the notebooks saved and the directories
\* that exist beforehand.
SavePaths ==
    {<<>>, <<"nb.ipynb">>, <<"out", "nb.ipynb">>, <<"out", "sub", "nb.ipynb">>,
     <<"tmp", "a", "b", "nb.ipynb">>}

SavedNotebooks ==
    {DefaultNotebook,
     [DefaultNotebook EXCEPT !.metadata.other = EmptyObject],
     [DefaultNotebook EXCEPT !.metadata.other = EmptyObject,
                             !.cells = <<MarkdownCell(<<"# Title">>)>>]}

ExistingDirs == {{}, {<<"out">>}, {<<"out">>, <<"out", "sub">>}}

\* notebook.save_to_file(path).
SaveToFile ==
    /\ pc = "save"
    /\ \E made \in 0..Len(last.path), write_ok \in BOOLEAN :
        LET r == save_to_file(notebook, serde_unit, last.path, files, made,
                              write_ok)
        IN  /\ parent(last.path) # None => made <= Len(parent(last.path)[1])
            /\ parent(last.path) = None => made = 0
            /\ files' = r.fs
            /\ returned' = r.ret
    /\ pc' = "saved"
    /\ UNCHANGED <<notebook, last, serde_unit, document, parsed, resaved>>
    /\ UNCHANGED <<app, selected, terminal, trace>>
    /\ UnchangedTranslate

InitSave ==
    /\ notebook \in SavedNotebooks
    /\ last \in {[op |-> "save_to_file", path |-> path] : path \in SavePaths}
    /\ serde_unit \in BOOLEAN
    /\ document = NotStarted
    /\ parsed = NotStarted
    /\ resaved = NotStarted
    /\ pc = "save"
    /\ input_mode = "Normal"
    /\ event = [kind |-> "none"]
    /\ command = None
    /\ app = DefaultApp
    /\ selected = 0
    /\ terminal = CookedTerminal
    /\ files \in {[NoFiles EXCEPT !.dirs = dirs] : dirs \in ExistingDirs}
    /\ trace = NoTrace
    /\ returned = NotStarted

NextSave == SaveToFile

SpecSave == InitSave /\ [][NextSave]_vars

\* C18. After save_to_file(path) returned: a write was attempted only after
\* create_dir_all on the parent of path succeeded, so that the parent and its
\* ancestors exist; a failed create_dir_all gives an error naming the parent
\* and no write; a failed write gives an error naming path.
C18_SaveCreatesParents ==
    pc = "saved" =>
        LET calls == files.calls
            dir == parent(last.path)
            mkdir == [call |-> "create_dir_all", ok |-> TRUE, path |-> dir[1]]
        IN  \A i \in DOMAIN calls :
              /\ calls[i].call = "write" =>
                    /\ calls[i].path = last.path
                    /\ dir # None =>
                          /\ \E j \in 1..(i - 1) : calls[j] = mkdir
                          /\ \A k \in 1..Len(dir[1]) :
                                SubSeq(dir[1], 1, k) \in files.dirs
                    /\ ~calls[i].ok =>
                          returned = Err(<<"Failed to write notebook to file: ",
                                           last.path>>)
              /\ (calls[i].call = "create_dir_all" /\ ~calls[i].ok) =>
                    /\ returned = Err(<<"Failed to create directories for: ",
                                        dir[1]>>)
                    /\ \A j \in DOMAIN calls : calls[j].call # "write"

\* create_dir_all failed on out/sub after creating out: the error names
\* out/sub and no write was attempted.
C18_Witness ==
    /\ pc = "saved"
    /\ last.path = <<"out", "sub", "nb.ipynb">>
    /\ files.calls = <<[call |-> "create_dir_all", ok |-> FALSE,
                        path |-> <<"out", "sub">>]>>
    /\ files.dirs = {<<"out">>}
    /\ returned = Err(<<"Failed to create directories for: ",
                        <<"out", "sub">>>>)

-----------------------------------------------------------------------------
(* tui/mod.rs: the cell viewer.  new_with_notebook(notebook) selects cell 0 *)
(* and ui_loop moves the selection on the Down and Up keys.                 *)

\* A slip of the Down arm: the comparison admits the position past the end.
Down_past_end(position, length) ==
    IF position < length THEN position + 1 ELSE position

\* ui_loop, KeyCode::Down: the field selected afterwards.
Down(position, length) ==
    IF position + 1 < length THEN position + 1 ELSE position

\* ui_loop, KeyCode::Up: the field selected afterwards.
Up(position) == IF position > 0 THEN position - 1 ELSE position

\* list_state(&self): the selection of the ListState handed to the list.
list_state(nb, position) == IF ~is_empty(nb) THEN Some(position) ELSE None

\* The notebooks handed to new_with_notebook.
ViewerNotebooks ==
    LET cells == {MarkdownCell(<<"# Title">>), CodeCell(<<"1">>, None, <<>>)}
    IN  {[DefaultNotebook EXCEPT !.cells = cs] :
            cs \in UNION {[1..n -> cells] : n \in 0..MaxCells}}

ViewerFrame ==
    /\ UNCHANGED <<notebook, serde_unit, document, parsed, resaved>>
    /\ UNCHANGED <<app, terminal, files, trace, returned>>
    /\ UnchangedTranslate

\* ui_loop read a key event with code Down.
ViewerDown ==
    /\ pc = "viewing"
    /\ selected' = Down(selected, len(notebook))
    /\ last' = [before |-> selected, op |-> "Down"]
    /\ UNCHANGED pc
    /\ ViewerFrame

\* ui_loop read a key event with code Up.
ViewerUp ==
    /\ pc = "viewing"
    /\ selected' = Up(selected)
    /\ last' = [before |-> selected, op |-> "Up"]
    /\ UNCHANGED pc
    /\ ViewerFrame

\* ui_loop read a key event with code Char('q'): return Ok(()).
ViewerQuit ==
    /\ pc = "viewing"
    /\ pc' = "returned"
    /\ last' = [before |-> selected, op |-> "q"]
    /\ UNCHANGED selected
    /\ ViewerFrame

\* ui_loop read another event: nothing changes.
ViewerOther ==
    /\ pc = "viewing"
    /\ last' = [before |-> selected, op |-> "other"]
    /\ UNCHANGED <<pc, selected>>
    /\ ViewerFrame

InitViewer ==
    /\ notebook \in ViewerNotebooks
    /\ last = [op |-> "new_with_notebook"]
    /\ serde_unit = TRUE
    /\ document = NotStarted
    /\ parsed = NotStarted
    /\ resaved = NotStarted
    /\ pc = "viewing"
    /\ input_mode = "Normal"
    /\ event = [kind |-> "none"]
    /\ command = None
    /\ SessionIdle

NextViewer ==
    \/ ViewerDown
    \/ ViewerUp
    \/ ViewerQuit
    \/ ViewerOther

SpecViewer == InitViewer /\ [][NextViewer]_vars

\* C20. In the viewer the selected index is 0 for an empty notebook and a
\* position of a cell otherwise, and the list shows it only when there is a
\* cell; Down on the last cell and Up on the first leave it unchanged.
C20_SelectedInBounds ==
    /\ is_empty(notebook) => selected = 0 /\ list_state(notebook, selected) = None
    /\ ~is_empty(notebook) =>
          /\ 0 <= selected /\ selected < len(notebook)
          /\ list_state(notebook, selected) = Some(selected)
    /\ (last.op = "Down" /\ last.before + 1 >= len(notebook)) =>
          selected = last.before
    /\ (last.op = "Up" /\ last.before = 0) => selected = 0

\* Down was pressed on the last of three cells.
C20_Witness ==
    /\ pc = "viewing"
    /\ len(notebook) = 3
    /\ last = [before |-> 2, op |-> "Down"]
    /\ selected = 2

-----------------------------------------------------------------------------
(* The bindings the default translator registers.                           *)

\* C21. Every binding default() registers for a mode is returned by
\* translate in that mode for its key code and modifiers; SwitchToInsertMode,
\* SwitchToVisualMode, SwitchToVisualLineMode and SwitchToVisualBlockMode
\* are each registered for a Normal-mode key, and so each is produced by it.
C21_DefaultBindings ==
    (pc = "translated" /\ event.kind = "Key") =>
        /\ \A i \in DOMAIN TableOf(input_mode) :
              TableOf(input_mode)[i][1] = KeyOf(event) =>
                  command = Some(TableOf(input_mode)[i][2])
        /\ \A cmd \in {SwitchToInsertMode, SwitchToVisualBlockMode,
                       SwitchToVisualLineMode, SwitchToVisualMode} :
              \E i \in DOMAIN normal_mode_event_map :
                  normal_mode_event_map[i][2] = cmd

-----------------------------------------------------------------------------
(* The two control loops side by side: run() and ui_loop of tui/app.rs, for *)
(* an application in any mode, and ui_loop of tui/mod.rs from its first     *)
(* iteration, which ends in the restoration steps of the same run().        *)

\* The events event::read() returns to the viewer.
ViewerEvents ==
    {[code |-> <<"Down">>, kind |-> "Key", modifiers |-> NONE],
     [code |-> <<"Up">>, kind |-> "Key", modifiers |-> NONE],
     [code |-> Char("q"), kind |-> "Key", modifiers |-> NONE],
     [code |-> Char("q"), kind |-> "Key", modifiers |-> CONTROL \cup SHIFT],
     [code |-> Char("x"), kind |-> "Key", modifiers |-> NONE],
     [kind |-> "Resize"]}

ViewerLoopFrame ==
    /\ UNCHANGED <<notebook, last, serde_unit, document, parsed, resaved>>
    /\ UNCHANGED <<app, terminal, files>>
    /\ UnchangedTranslate

\* mod.rs ui_loop: terminal.draw(..)?
ViewerDraw ==
    /\ pc = "viewer_draw"
    /\ \E ok \in BOOLEAN :
        /\ pc' = IF ok THEN "viewer_poll" ELSE "disable_raw_mode"
        /\ returned' = IF ok THEN returned ELSE Err("draw")
    /\ UNCHANGED <<selected, trace>>
    /\ ViewerLoopFrame

\* mod.rs ui_loop: event::poll(250 ms)?
ViewerPoll ==
    /\ pc = "viewer_poll"
    /\ \E outcome \in {"error", "none", "ready"} :
        /\ outcome = "ready" => Len(trace.read) < MaxEvents
        /\ pc' = CASE outcome = "ready" -> "viewer_read"
                   [] outcome = "none" -> "viewer_draw"
                   [] outcome = "error" -> "disable_raw_mode"
        /\ returned' = IF outcome = "error" THEN Err("poll") ELSE returned
    /\ UNCHANGED <<selected, trace>>
    /\ ViewerLoopFrame

\* mod.rs ui_loop: event::read()? and the match on key.code: Char('q')
\* returns Ok(()), Down and Up move the selection, the rest is dropped.
ViewerRead ==
    /\ pc = "viewer_read"
    /\ \/ /\ pc' = "disable_raw_mode"
          /\ returned' = Err("read")
          /\ UNCHANGED <<selected, trace>>
       \/ \E ev \in ViewerEvents :
            /\ trace' = [trace EXCEPT !.read = Append(@, ev)]
            /\ IF ev.kind = "Key" /\ ev.code = Char("q")
               THEN pc' = "disable_raw_mode" /\ returned' = Ok("()")
               ELSE pc' = "viewer_draw" /\ UNCHANGED returned
            /\ selected' =
                  CASE ev.kind = "Key" /\ ev.code = <<"Down">> ->
                          Down(selected, len(notebook))
                    [] ev.kind = "Key" /\ ev.code = <<"Up">> -> Up(selected)
                    [] OTHER -> selected
    /\ ViewerLoopFrame

InitLoops ==
    /\ last = [op |-> "default"]
    /\ serde_unit = TRUE
    /\ document = NotStarted
    /\ parsed = NotStarted
    /\ resaved = NotStarted
    /\ input_mode = "Normal"
    /\ event = [kind |-> "none"]
    /\ command = None
    /\ selected = 0
    /\ files = NoFiles
    /\ trace = NoTrace
    /\ returned = NotStarted
    /\ \/ /\ pc = "new"
          /\ notebook = DefaultNotebook
          /\ app \in {[DefaultApp EXCEPT !.input_mode = mode] :
                         mode \in InputModes}
          /\ terminal = CookedTerminal
       \/ /\ pc = "viewer_draw"
          /\ notebook \in {[DefaultNotebook EXCEPT !.cells =
                               [i \in 1..n |-> MarkdownCell(<<"# Title">>)]] :
                              n \in 0..MaxCells}
          /\ app = DefaultApp
          /\ terminal =
                [Called(Called(Called(CookedTerminal,
                                      "enable_raw_mode", TRUE),
                               "enter_alternate_screen", TRUE),
                        "terminal_new", TRUE)
                    EXCEPT !.alternate_screen = TRUE,
                           !.mouse_capture = TRUE,
                           !.raw_mode = TRUE]

NextLoops ==
    \/ NextLoop
    \/ ViewerDraw
    \/ ViewerPoll
    \/ ViewerRead

SpecLoops == InitLoops /\ [][NextLoops]_vars

\* C22. In both loops a step that reads an event reads one event; if it is
\* a key event with code Char('q'), under any modifiers and in any mode, the
\* loop ends with Ok(()), and otherwise the loop goes on to its next draw.
\* An event is read only after a poll, and a poll is made only after a draw.
C22_QuitKeyEndsLoop ==
    [][/\ trace'.read # trace.read =>
            LET ev == trace'.read[Len(trace'.read)]
            IN  /\ pc \in {"read", "viewer_read"}
                /\ trace'.read = Append(trace.read, ev)
                /\ IF ev.kind = "Key" /\ ev.code = Char("q")
                   THEN pc' = "disable_raw_mode" /\ returned' = Ok("()")
                   ELSE /\ pc' = IF pc = "read" THEN "draw" ELSE "viewer_draw"
                        /\ returned' = returned
       /\ pc' = "read" => pc = "poll"
       /\ pc' = "viewer_read" => pc = "viewer_poll"
       /\ pc' = "poll" => pc = "draw"
       /\ pc' = "viewer_poll" => pc = "viewer_draw"]_vars

\* In Insert mode the loop of app.rs read x and then a plain q, which the
\* Insert map does not bind, and ended with Ok(()).
C22_Witness ==
    /\ pc = "disable_raw_mode"
    /\ app.input_mode = "Insert"
    /\ trace.read = <<[code |-> Char("x"), kind |-> "Key", modifiers |-> NONE],
                      [code |-> Char("q"), kind |-> "Key", modifiers |-> NONE]>>
    /\ translate_event(trace.read[2], app.input_mode) = None
    /\ returned = Ok("()")

====
